---- MODULE Spec2Model ----
(***************************************************************************)
(* Model of the opus crate: Decoder::decode_f32, the TOC byte parser,      *)
(* parse_size, FrameIterator and RangeDecoder (src/src/decoder.rs), and    *)
(* RangeEncoder (src/src/range_coding/range_encoder.rs).                   *)
(*                                                                         *)
(* A byte slice &[u8] of the packet is a record [off, len]: the slice      *)
(* data[off .. off+len].  The packet itself is kept as its leading bytes   *)
(* (head) followed by tail.len bytes that all have the value tail.fill.    *)
(* A usize that wrapped below zero (release build, no overflow checks) is  *)
(* written as the negative integer n and stands for 2^64 + n.              *)
(***************************************************************************)
EXTENDS Integers, Sequences, FiniteSets, TLC

\* ------------------------------------------------------------------ bounds
\* Longest explicit byte prefix that follows the TOC byte.
MaxHead == 3

\* Values of the explicit bytes: control bytes (0 = CBR, N=0; 1, 2 = CBR;
\* 48, 49 = padding flag with N=48, N=49; 64 = VBR, N=0; 66 = VBR, N=2),
\* size prefixes (0 invalid, 1, 2 one byte, 252 and 255 two bytes) and
\* padding lengths (255 continues).
HeadBytes == {0, 1, 2, 48, 49, 64, 66, 252, 255}

\* One TOC byte per framing mode (184 = 0xB8, the reference packet's TOC).
TocBytes == {184, 1, 2, 3}

\* Number and value of the bytes that follow the explicit prefix.
TailLens == {0, 1, 2, 48, 49, 302}
FillBytes == {1}

\* ------------------------------------------------------- program constants
\* The array sized for every value of the 6-bit count field instead.
MAX_FRAME_COUNT_count_field == 63 + 1

\* Line 7.
MAX_FRAME_COUNT_PER_PACKET == 48

VARIABLES
    data,                   \* decode_f32's argument: [head, tail]
    pc,                     \* position inside decode_f32 / FrameIterator::new
    result,                 \* what decode_f32 returned, "panic" for an abort
    table_of_contents,      \* TableOfContentsHeader::try_from(data[0])
    packet,                 \* the local / field `packet`: [off, len]
    num_frames,             \* locals of the Arbitrary branch
    variable_bit_rate,
    opus_padding_present,
    total_padding_bytes,
    sizes,                  \* FrameIterator.sizes, indexed 0..47
    size_index,             \* the variable-bit-rate loop's position in sizes
    count,                  \* FrameIterator.count
    constant_bit_rate,      \* FrameIterator.constant_bit_rate
    current_frame,          \* FrameIterator.current_frame
    frames,                 \* the OpusFrame slices next() has yielded
    path                    \* the steps this call has taken, in order

\* RangeDecoder (lines 201-401).  The registers rng and ext reach 2^31, one
\* more than the largest integer of the model, and are kept as their value
\* minus one.
VARIABLES
    checked_build,          \* the build: overflow checks on (debug) or off
    rd_pc,                  \* "unused", "new", "ready", "panic"
    frame,                  \* the argument of RangeDecoder::new
    frame_data,             \* self.frame_data, what neither end has read yet
    val,                    \* self.val
    rng_minus_1,            \* self.rng - 1
    ext_minus_1,            \* self.ext - 1
    leftover_bit,           \* self.leftover_bit
    end_window,             \* self.bit_decoder.end_window
    num_end_bits,           \* self.bit_decoder.num_end_bits
    num_bits_total,         \* self.bit_decoder.num_bits_total
    calls,                  \* the decode_u32 calls made so far, in order
    before,                 \* the decoder's fields when the last call began
    front_read,             \* the bytes read_byte has returned, in order
    end_read,               \* the bytes read_byte_from_end has returned
    range_decoder           \* the RangeDecoder of range_decoder.rs given the
                            \* same frame and the same calls: [pc, st, rets],
                            \* st its fields, rets what its calls returned

fvars == <<data, pc, result, table_of_contents, packet, num_frames,
           variable_bit_rate, opus_padding_present, total_padding_bytes,
           sizes, size_index, count, constant_bit_rate, current_frame, frames,
           path>>

rdvars == <<checked_build, rd_pc, frame, frame_data, val, rng_minus_1,
            ext_minus_1, leftover_bit, end_window, num_end_bits,
            num_bits_total, calls, before, front_read, end_read,
            range_decoder>>

\* RangeEncoder (range_coding/range_encoder.rs), rng kept minus one as well,
\* and the round trip of its output through a RangeDecoder.
VARIABLES
    enc_pc,                 \* "unused", "ready", "hang", "panic"
    enc_val,                \* RangeEncoder.val
    enc_rng_minus_1,        \* RangeEncoder.rng - 1
    rem,                    \* RangeEncoder.rem: <<>> for None, <<b>> for Some(b)
    enc_ext,                \* RangeEncoder.ext
    written,                \* the bytes the encoder has written
    symbols,                \* the triples encode was called with, in order
    decoded,                \* the positions decode returned for them
    enc_before,             \* val and rng - 1 when the last encode was entered
    carried                 \* the last carry_out call: <<>> before the first,
                            \* else <<[c, rem, ext, written]>>, its argument
                            \* and the fields when it was entered

evars == <<enc_pc, enc_val, enc_rng_minus_1, rem, enc_ext, written, symbols,
           decoded, enc_before, carried>>

\* The state of the range coder, decoder and encoder.
cvars == <<rdvars, evars>>

vars == <<fvars, rdvars, evars>>

\* ------------------------------------------------------------ byte slices
DataLen(d) == Len(d.head) + d.tail.len

\* d[i], i counted from 0 as in the source.
At(d, i) == IF i < Len(d.head) THEN d.head[i + 1] ELSE d.tail.fill

\* &p[n..]
SkipFront(p, n) == [off |-> p.off + n, len |-> p.len - n]

\* &p[..n]
Truncate(p, n) == [off |-> p.off, len |-> n]

\* A usize larger than a slice length; a wrapped usize is near 2^64.
Exceeds(n, len) == n < 0 \/ n > len

\* --------------------------------------------------------------- TOC byte
\* impl TryFrom<u8> for FramesPerPacket
FramesPerPacketFrom(byte) ==
    LET code == byte % 4 IN
    IF code = 0 THEN "One"
    ELSE IF code = 1 THEN "TwoEquallyCompressed"
    ELSE IF code = 2 THEN "TwoDifferentlyCompressed"
    ELSE IF code = 3 THEN "Arbitrary"
    ELSE "InvalidFramesPerPacket"

\* The match of impl TryFrom<u8> for CodecConfig, entry i for config_val i-1.
CodecConfigTable ==
    << <<"SILKOnly", "Narrow", "Ten">>,       <<"SILKOnly", "Narrow", "Twenty">>,
       <<"SILKOnly", "Narrow", "Forty">>,     <<"SILKOnly", "Narrow", "Sixty">>,
       <<"SILKOnly", "Medium", "Ten">>,       <<"SILKOnly", "Medium", "Twenty">>,
       <<"SILKOnly", "Medium", "Forty">>,     <<"SILKOnly", "Medium", "Sixty">>,
       <<"SILKOnly", "Wide", "Ten">>,         <<"SILKOnly", "Wide", "Twenty">>,
       <<"SILKOnly", "Wide", "Forty">>,       <<"SILKOnly", "Wide", "Sixty">>,
       <<"Hybrid", "SuperWide", "Ten">>,      <<"Hybrid", "SuperWide", "Twenty">>,
       <<"Hybrid", "Full", "Ten">>,           <<"Hybrid", "Full", "Twenty">>,
       <<"CELTOnly", "Narrow", "TwoPointFive">>,    <<"CELTOnly", "Narrow", "Five">>,
       <<"CELTOnly", "Narrow", "Ten">>,             <<"CELTOnly", "Narrow", "Twenty">>,
       <<"CELTOnly", "Wide", "TwoPointFive">>,      <<"CELTOnly", "Wide", "Five">>,
       <<"CELTOnly", "Wide", "Ten">>,               <<"CELTOnly", "Wide", "Twenty">>,
       <<"CELTOnly", "SuperWide", "TwoPointFive">>, <<"CELTOnly", "SuperWide", "Five">>,
       <<"CELTOnly", "SuperWide", "Ten">>,          <<"CELTOnly", "SuperWide", "Twenty">>,
       <<"CELTOnly", "Full", "TwoPointFive">>,      <<"CELTOnly", "Full", "Five">>,
       <<"CELTOnly", "Full", "Ten">>,               <<"CELTOnly", "Full", "Twenty">> >>

\* CodecConfigFrom with the config index taken from the high four bits only
\* (mask 0b11110000 before the shift), so that odd indices lose their low bit.
CodecConfigFrom_low_bit_dropped(byte) ==
    LET config_val == (((byte % 256) \div 16) * 16) \div 8 IN
    IF config_val + 1 \in DOMAIN CodecConfigTable
    THEN [err        |-> "none",
          mode       |-> CodecConfigTable[config_val + 1][1],
          bandwidth  |-> CodecConfigTable[config_val + 1][2],
          frame_size |-> CodecConfigTable[config_val + 1][3]]
    ELSE [err |-> "InvalidCodecConfig"]

\* impl TryFrom<u8> for CodecConfig: [err |-> "InvalidCodecConfig"] or the config.
CodecConfigFrom(byte) ==
    LET config_val == (byte % 256) \div 8 IN
    IF config_val + 1 \in DOMAIN CodecConfigTable
    THEN [err        |-> "none",
          mode       |-> CodecConfigTable[config_val + 1][1],
          bandwidth  |-> CodecConfigTable[config_val + 1][2],
          frame_size |-> CodecConfigTable[config_val + 1][3]]
    ELSE [err |-> "InvalidCodecConfig"]

\* TableOfContentsHeaderFrom with the channel flag read from bit 3.
TableOfContentsHeaderFrom_channel_bit_3(byte) ==
    LET codec_config      == CodecConfigFrom(byte)
        frames_per_packet == FramesPerPacketFrom(byte)
        channels == IF (byte \div 8) % 2 = 1 THEN "Stereo" ELSE "Mono"
    IN  IF codec_config.err # "none"
        THEN [err |-> codec_config.err]
        ELSE IF frames_per_packet = "InvalidFramesPerPacket"
        THEN [err |-> "InvalidFramesPerPacket"]
        ELSE [err |-> "none",
              codec_config |-> [mode       |-> codec_config.mode,
                                bandwidth  |-> codec_config.bandwidth,
                                frame_size |-> codec_config.frame_size],
              channels |-> channels, frames_per_packet |-> frames_per_packet]

\* impl TryFrom<u8> for TableOfContentsHeader: [err |-> e] or the header.
TableOfContentsHeaderFrom(byte) ==
    LET codec_config      == CodecConfigFrom(byte)
        frames_per_packet == FramesPerPacketFrom(byte)
        channels == IF (byte \div 4) % 2 = 1 THEN "Stereo" ELSE "Mono"
    IN  IF codec_config.err # "none"
        THEN [err |-> codec_config.err]
        ELSE IF frames_per_packet = "InvalidFramesPerPacket"
        THEN [err |-> "InvalidFramesPerPacket"]
        ELSE [err |-> "none",
              codec_config |-> [mode       |-> codec_config.mode,
                                bandwidth  |-> codec_config.bandwidth,
                                frame_size |-> codec_config.frame_size],
              channels |-> channels, frames_per_packet |-> frames_per_packet]

\* -------------------------------------------------------------- parse_size
\* parse_size with the second byte scaled by 2 instead of 4.
parse_size_half_scale(p) ==
    IF p.len = 0 THEN [tag |-> "panic"]
    ELSE LET first_byte == At(data, p.off) IN
         IF first_byte = 0 THEN [tag |-> "None"]
         ELSE IF first_byte <= 251
         THEN [tag |-> "Some", size |-> first_byte, num_bytes |-> 1]
         ELSE IF p.len >= 2
         THEN [tag |-> "Some",
               size |-> At(data, p.off + 1) * 2 + first_byte, num_bytes |-> 2]
         ELSE [tag |-> "None"]

\* parse_size(data) for the slice p; data[0] on an empty slice aborts.
parse_size(p) ==
    IF p.len = 0 THEN [tag |-> "panic"]
    ELSE LET first_byte == At(data, p.off) IN
         IF first_byte = 0 THEN [tag |-> "None"]
         ELSE IF first_byte <= 251
         THEN [tag |-> "Some", size |-> first_byte, num_bytes |-> 1]
         ELSE IF p.len >= 2
         THEN [tag |-> "Some",
               size |-> At(data, p.off + 1) * 4 + first_byte, num_bytes |-> 2]
         ELSE [tag |-> "None"]

\* ------------------------------------------------------------------- Init
NoSlice == [off |-> 0, len |-> 0]

Sizes0 == [i \in 0 .. MAX_FRAME_COUNT_PER_PACKET - 1 |-> 0]

Heads == UNION {[1 .. n -> HeadBytes] : n \in 0 .. MaxHead}

Tails == {[len |-> 0, fill |-> 0]}
         \cup {[len |-> n, fill |-> f] : n \in TailLens \ {0}, f \in FillBytes}

\* The empty buffer, or a TOC byte followed by any payload.
Packets == {[head |-> <<>>, tail |-> [len |-> 0, fill |-> 0]]}
           \cup {[head |-> <<t>> \o h, tail |-> tl] :
                    t \in TocBytes, h \in Heads, tl \in Tails}

\* Every TOC byte, followed by a short payload: nothing (the TOC-only
\* packet), or control bytes (1 = CBR, 48 = padding flag, 66 = VBR) and a tail.
MaxTocHead == 2
AllTocBytes == 0 .. 255
TocHeadBytes == {1, 48, 66}
TocHeads == UNION {[1 .. n -> TocHeadBytes] : n \in 0 .. MaxTocHead}
TocTails == {[len |-> 0, fill |-> 0], [len |-> 2, fill |-> 1]}
TocPackets == {[head |-> <<>>, tail |-> [len |-> 0, fill |-> 0]]}
              \cup {[head |-> <<t>> \o h, tail |-> tl] :
                       t \in AllTocBytes, h \in TocHeads, tl \in TocTails}

\* decode_f32 is entered with the buffer `data`; the locals are not yet set.
Entry ==
    /\ pc = "decode_f32"
    /\ result = "none"
    /\ table_of_contents = [err |-> "unset"]
    /\ packet = NoSlice
    /\ num_frames = 0
    /\ variable_bit_rate = FALSE
    /\ opus_padding_present = FALSE
    /\ total_padding_bytes = 0
    /\ sizes = Sizes0
    /\ size_index = 0
    /\ count = 0
    /\ constant_bit_rate = FALSE
    /\ current_frame = 0
    /\ frames = <<>>
    /\ path = <<>>

\* No RangeDecoder exists: decode_f32 constructs none.
NoRangeDecoder ==
    /\ rd_pc = "unused"
    /\ frame = <<>>
    /\ frame_data = <<>>
    /\ val = 0
    /\ rng_minus_1 = 0
    /\ ext_minus_1 = 0
    /\ leftover_bit = FALSE
    /\ end_window = 0
    /\ num_end_bits = 0
    /\ num_bits_total = 0
    /\ calls = <<>>
    /\ before = <<>>
    /\ front_read = <<>>
    /\ end_read = <<>>
    /\ range_decoder = [pc |-> "unused", rets |-> <<>>, st |-> <<>>]

\* Nor a RangeEncoder.
NoRangeEncoder ==
    /\ enc_pc = "unused"
    /\ enc_val = 0
    /\ enc_rng_minus_1 = 0
    /\ rem = <<>>
    /\ enc_ext = 0
    /\ written = <<>>
    /\ symbols = <<>>
    /\ decoded = <<>>
    /\ enc_before = [val |-> enc_val, rng_minus_1 |-> enc_rng_minus_1]
    /\ carried = <<>>

Init ==
    /\ data \in Packets
    /\ Entry
    /\ checked_build = FALSE
    /\ NoRangeDecoder
    /\ NoRangeEncoder

InitToc ==
    /\ data \in TocPackets
    /\ Entry
    /\ checked_build = FALSE
    /\ NoRangeDecoder
    /\ NoRangeEncoder

\* decode_f32 returns r (an Error, "Ok") or aborts (r = "panic").
Return(r) ==
    /\ pc' = "returned"
    /\ result' = r

\* ------------------------------------------------------------- decode_f32
\* decode_f32 without the empty check of lines 27-29: data[0] is indexed
\* in an empty buffer, which aborts.
decode_f32_no_empty_check ==
    /\ pc = "decode_f32"
    /\ UNCHANGED cvars
    /\ path' = Append(path, "decode_f32")
    /\ IF DataLen(data) = 0
       THEN /\ Return("panic")
            /\ UNCHANGED <<table_of_contents, packet>>
       ELSE LET toc == TableOfContentsHeaderFrom(At(data, 0)) IN
            /\ table_of_contents' = toc
            /\ IF toc.err # "none"
               THEN Return(toc.err) /\ UNCHANGED packet
               ELSE IF DataLen(data) < 2
               THEN Return("Ok") /\ UNCHANGED packet
               ELSE /\ packet' = [off |-> 1, len |-> DataLen(data) - 1]
                    /\ pc' = "new"
                    /\ UNCHANGED result
    /\ UNCHANGED <<data, num_frames, variable_bit_rate, opus_padding_present,
                   total_padding_bytes, sizes, size_index, count,
                   constant_bit_rate, current_frame, frames>>

\* decode_f32 without the TOC-only return of lines 33-35: the empty payload
\* goes to the framer.
decode_f32_no_toc_only_return ==
    /\ pc = "decode_f32"
    /\ UNCHANGED cvars
    /\ path' = Append(path, "decode_f32")
    /\ IF DataLen(data) = 0
       THEN /\ Return("InvalidPacketSize")
            /\ UNCHANGED <<table_of_contents, packet>>
       ELSE LET toc == TableOfContentsHeaderFrom(At(data, 0)) IN
            /\ table_of_contents' = toc
            /\ IF toc.err # "none"
               THEN Return(toc.err) /\ UNCHANGED packet
               ELSE /\ packet' = [off |-> 1, len |-> DataLen(data) - 1]
                    /\ pc' = "new"
                    /\ UNCHANGED result
    /\ UNCHANGED <<data, num_frames, variable_bit_rate, opus_padding_present,
                   total_padding_bytes, sizes, size_index, count,
                   constant_bit_rate, current_frame, frames>>

\* Lines 26-37: the empty check, the TOC byte, the TOC-only packet.
decode_f32 ==
    /\ pc = "decode_f32"
    /\ UNCHANGED cvars
    /\ path' = Append(path, "decode_f32")
    /\ IF DataLen(data) = 0
       THEN /\ Return("InvalidPacketSize")
            /\ UNCHANGED <<table_of_contents, packet>>
       ELSE LET toc == TableOfContentsHeaderFrom(At(data, 0)) IN
            /\ table_of_contents' = toc
            /\ IF toc.err # "none"
               THEN Return(toc.err) /\ UNCHANGED packet
               ELSE IF DataLen(data) < 2
               THEN Return("Ok") /\ UNCHANGED packet
               ELSE /\ packet' = [off |-> 1, len |-> DataLen(data) - 1]
                    /\ pc' = "new"
                    /\ UNCHANGED result
    /\ UNCHANGED <<data, num_frames, variable_bit_rate, opus_padding_present,
                   total_padding_bytes, sizes, size_index, count,
                   constant_bit_rate, current_frame, frames>>

\* ----------------------------------------------------- FrameIterator::new
\* Lines 177-180: sizes[count - 1] = last_frame_size, then Ok(Self {..}).
\* sz and p are `sizes` and `packet` as the match arm left them.
Construct(cnt, last_frame_size, cbr, sz, p) ==
    IF cnt - 1 \notin DOMAIN sz
    THEN /\ Return("panic")
         /\ packet' = p
         /\ sizes' = sz
         /\ UNCHANGED <<count, constant_bit_rate, current_frame>>
    ELSE /\ sizes' = [sz EXCEPT ![cnt - 1] = last_frame_size]
         /\ packet' = p
         /\ count' = cnt
         /\ constant_bit_rate' = cbr
         /\ current_frame' = 0
         /\ pc' = "iterate"
         /\ UNCHANGED result

\* FrameIterator::new returns Err(e), or aborts, with the locals as they are.
Fail(e, sz, p) ==
    /\ Return(e)
    /\ packet' = p
    /\ sizes' = sz
    /\ UNCHANGED <<count, constant_bit_rate, current_frame>>

\* Line 74.
NewOne ==
    /\ pc = "new"
    /\ UNCHANGED cvars
    /\ table_of_contents.frames_per_packet = "One"
    /\ path' = Append(path, "One")
    /\ Construct(1, packet.len, TRUE, sizes, packet)
    /\ UNCHANGED <<data, table_of_contents, num_frames, variable_bit_rate,
                   opus_padding_present, total_padding_bytes, size_index,
                   frames>>

\* The TwoEquallyCompressed arm without its check of the length's low bit.
NewTwoEquallyCompressed_no_parity_check ==
    /\ pc = "new"
    /\ UNCHANGED cvars
    /\ table_of_contents.frames_per_packet = "TwoEquallyCompressed"
    /\ path' = Append(path, "TwoEquallyCompressed")
    /\ Construct(2, packet.len \div 2, TRUE,
                 [sizes EXCEPT ![0] = packet.len \div 2], packet)
    /\ UNCHANGED <<data, table_of_contents, num_frames, variable_bit_rate,
                   opus_padding_present, total_padding_bytes, size_index,
                   frames>>

\* Lines 75-83.
NewTwoEquallyCompressed ==
    /\ pc = "new"
    /\ UNCHANGED cvars
    /\ table_of_contents.frames_per_packet = "TwoEquallyCompressed"
    /\ path' = Append(path, "TwoEquallyCompressed")
    /\ IF packet.len % 2 # 0
       THEN Fail("InvalidPacketSize", sizes, packet)
       ELSE Construct(2, packet.len \div 2, TRUE,
                      [sizes EXCEPT ![0] = packet.len \div 2], packet)
    /\ UNCHANGED <<data, table_of_contents, num_frames, variable_bit_rate,
                   opus_padding_present, total_padding_bytes, size_index,
                   frames>>

\* Lines 84-98.  packet.len() - first_frame_size is a usize subtraction: below
\* zero it aborts with overflow checks on and wraps with them off.
NewTwoDifferentlyCompressed ==
    /\ pc = "new"
    /\ UNCHANGED cvars
    /\ table_of_contents.frames_per_packet = "TwoDifferentlyCompressed"
    /\ path' = Append(path, "TwoDifferentlyCompressed")
    /\ LET ps == parse_size(packet) IN
       IF ps.tag = "panic" THEN Fail("panic", sizes, packet)
       ELSE IF ps.tag = "None" THEN Fail("InvalidPacketSize", sizes, packet)
       ELSE IF ps.size > packet.len THEN Fail("InvalidPacketSize", sizes, packet)
       ELSE LET rest == SkipFront(packet, ps.num_bytes)
                last_frame_size == rest.len - ps.size
                sz == [sizes EXCEPT ![0] = ps.size]
            IN  IF last_frame_size < 0
                THEN \E overflow_checks \in BOOLEAN :
                        IF overflow_checks
                        THEN Fail("panic", sizes, rest)
                        ELSE Construct(2, last_frame_size, FALSE, sz, rest)
                ELSE Construct(2, last_frame_size, FALSE, sz, rest)
    /\ UNCHANGED <<data, table_of_contents, num_frames, variable_bit_rate,
                   opus_padding_present, total_padding_bytes, size_index,
                   frames>>

\* The frame count taken with the mask 0b01111111.
NumFrames_wide_mask(first_byte) == first_byte % 128

\* Line 105: first_byte & 0b00111111.
NumFrames(first_byte) == first_byte % 64

\* Lines 99-114: the length check, the control byte, the frame count.
\* variable_bit_rate is bit 6 (0b1000000), opus_padding_present bit 5 (0b0100000).
NewArbitrary ==
    /\ pc = "new"
    /\ UNCHANGED cvars
    /\ table_of_contents.frames_per_packet = "Arbitrary"
    /\ path' = Append(path, "Arbitrary")
    /\ IF packet.len < 2
       THEN /\ Fail("InvalidPacketSize", sizes, packet)
            /\ UNCHANGED <<num_frames, variable_bit_rate, opus_padding_present>>
       ELSE LET first_byte == At(data, packet.off)
                vbr == (first_byte \div 64) % 2 = 1
                pad == (first_byte \div 32) % 2 = 1
            IN  /\ num_frames' = NumFrames(first_byte)
                /\ variable_bit_rate' = vbr
                /\ opus_padding_present' = pad
                /\ IF NumFrames(first_byte) = 0
                   THEN Fail("InvalidFrameCount", sizes, SkipFront(packet, 1))
                   ELSE /\ packet' = SkipFront(packet, 1)
                        /\ pc' = IF pad THEN "padding"
                                 ELSE IF vbr THEN "variable_bit_rate"
                                 ELSE "constant_bit_rate"
                        /\ UNCHANGED <<result, sizes, count, constant_bit_rate,
                                       current_frame>>
    /\ UNCHANGED <<data, table_of_contents, total_padding_bytes, size_index,
                   frames>>

\* The padding loop with a byte 255 adding 255 instead of 254.
RECURSIVE PaddingLoop_255_adds_255(_, _)
PaddingLoop_255_adds_255(p, total) ==
    IF p.len = 0
    THEN [tag |-> "InvalidOpusPadding", packet |-> p, total |-> total]
    ELSE LET n == At(data, p.off) IN
         IF n <= 254
         THEN [tag |-> "ok", packet |-> SkipFront(p, 1), total |-> total + n]
         ELSE PaddingLoop_255_adds_255(SkipFront(p, 1), total + 255)

\* Lines 120-136: the loop that adds up the padding length, from slice p on.
RECURSIVE PaddingLoop(_, _)
PaddingLoop(p, total) ==
    IF p.len = 0
    THEN [tag |-> "InvalidOpusPadding", packet |-> p, total |-> total]
    ELSE LET n == At(data, p.off) IN
         IF n <= 254
         THEN [tag |-> "ok", packet |-> SkipFront(p, 1), total |-> total + n]
         ELSE PaddingLoop(SkipFront(p, 1), total + 254)

\* Lines 116-144: the padding length, its check, the tail cut off.
Padding ==
    /\ pc = "padding"
    /\ UNCHANGED cvars
    /\ path' = Append(path, "padding")
    /\ LET r == PaddingLoop(packet, 0) IN
       /\ total_padding_bytes' = r.total
       /\ IF r.tag # "ok"
          THEN Fail(r.tag, sizes, r.packet)
          ELSE IF r.packet.len <= r.total
          THEN Fail("InvalidPacketSize", sizes, r.packet)
          ELSE /\ packet' = Truncate(r.packet, r.packet.len - r.total)
               /\ pc' = IF variable_bit_rate THEN "variable_bit_rate"
                        ELSE "constant_bit_rate"
               /\ UNCHANGED <<result, sizes, count, constant_bit_rate,
                              current_frame>>
    /\ UNCHANGED <<data, table_of_contents, num_frames, variable_bit_rate,
                   opus_padding_present, size_index, frames>>

Min(a, b) == IF a <= b THEN a ELSE b

\* Lines 146-158, then 177-180.  One firing is one turn of the loop over
\* sizes.iter_mut().take(num_frames - 1), which visits at most the 48 entries
\* of the array; the firing after the last turn builds the iterator.
NewVariableBitRate ==
    /\ pc = "variable_bit_rate"
    /\ UNCHANGED cvars
    /\ path' = Append(path, "variable_bit_rate")
    /\ IF size_index < Min(num_frames - 1, MAX_FRAME_COUNT_PER_PACKET)
       THEN LET ps == parse_size(packet) IN
            IF ps.tag = "panic"
            THEN Fail("panic", sizes, packet) /\ UNCHANGED size_index
            ELSE IF ps.tag = "None"
            THEN Fail("InvalidPacketSize", sizes, packet) /\ UNCHANGED size_index
            ELSE IF ps.size > packet.len
            THEN Fail("InvalidPacketSize", sizes, packet) /\ UNCHANGED size_index
            ELSE /\ packet' = SkipFront(packet, ps.num_bytes)
                 /\ sizes' = [sizes EXCEPT ![size_index] = ps.size]
                 /\ size_index' = size_index + 1
                 /\ UNCHANGED <<pc, result, count, constant_bit_rate,
                                current_frame>>
       ELSE /\ Construct(num_frames, packet.len, FALSE, sizes, packet)
            /\ UNCHANGED size_index
    /\ UNCHANGED <<data, table_of_contents, num_frames, variable_bit_rate,
                   opus_padding_present, total_padding_bytes, frames>>

\* Lines 159-173, then 177-180.  &mut sizes[0..(num_frames - 1)] aborts when
\* num_frames - 1 exceeds the array length.
NewConstantBitRate ==
    /\ pc = "constant_bit_rate"
    /\ UNCHANGED cvars
    /\ path' = Append(path, "constant_bit_rate")
    /\ IF packet.len % num_frames # 0
       THEN Fail("InvalidPacketSize", sizes, packet)
       ELSE LET frame_size == packet.len \div num_frames IN
            IF num_frames - 1 > MAX_FRAME_COUNT_PER_PACKET
            THEN Fail("panic", sizes, packet)
            ELSE Construct(num_frames, frame_size, TRUE,
                           [i \in DOMAIN sizes |->
                               IF i < num_frames - 1 THEN frame_size ELSE sizes[i]],
                           packet)
    /\ UNCHANGED <<data, table_of_contents, num_frames, variable_bit_rate,
                   opus_padding_present, total_padding_bytes, size_index,
                   frames>>

\* ---------------------------------------------------- FrameIterator::next
\* Lines 39-43 and 187-198: one turn of decode_f32's for loop.  split_at(mid)
\* aborts when mid exceeds the slice length.
Next_frame ==
    /\ pc = "iterate"
    /\ UNCHANGED cvars
    /\ path' = Append(path, "next")
    /\ IF current_frame < count
       THEN LET mid == sizes[current_frame] IN
            IF Exceeds(mid, packet.len)
            THEN /\ Return("panic")
                 /\ UNCHANGED <<packet, current_frame, frames>>
            ELSE /\ frames' = Append(frames, [off |-> packet.off, len |-> mid])
                 /\ packet' = SkipFront(packet, mid)
                 /\ current_frame' = current_frame + 1
                 /\ UNCHANGED <<pc, result>>
       ELSE /\ Return("Ok")
            /\ UNCHANGED <<packet, current_frame, frames>>
    /\ UNCHANGED <<data, table_of_contents, num_frames, variable_bit_rate,
                   opus_padding_present, total_padding_bytes, sizes,
                   size_index, count, constant_bit_rate>>

Next ==
    \/ decode_f32
    \/ NewOne
    \/ NewTwoEquallyCompressed
    \/ NewTwoDifferentlyCompressed
    \/ NewArbitrary
    \/ Padding
    \/ NewVariableBitRate
    \/ NewConstantBitRate
    \/ Next_frame

Spec == Init /\ [][Next]_vars

\* The same program, entered with every TOC byte.
SpecToc == InitToc /\ [][Next]_vars

\* ============================================================ RangeDecoder
\* Lines 11-14.
CODE_BITS == 32
SYM_BITS == 8
CODE_EXTRA == ((CODE_BITS - 2) % SYM_BITS) + 1
WINDOW_SIZE == 4 * 8

\* ----------------------------------------------------------- u32 operators
\* Every u32 of the model is below 2^31 (rng and ext apart, see rdvars).
RECURSIVE BitOr(_, _)
BitOr(a, b) ==
    IF a = 0 THEN b
    ELSE IF b = 0 THEN a
    ELSE (IF a % 2 = 1 \/ b % 2 = 1 THEN 1 ELSE 0)
         + 2 * BitOr(a \div 2, b \div 2)

RECURSIVE BitAnd(_, _)
BitAnd(a, b) ==
    IF a = 0 \/ b = 0 THEN 0
    ELSE (a % 2) * (b % 2) + 2 * BitAnd(a \div 2, b \div 2)

\* x << n and x >> n for a shift amount n in 0..31; << drops the bits that
\* leave the 32-bit word.
Shl(x, n) == IF n <= 1 THEN x * (2 ^ n) ELSE (x % (2 ^ (32 - n))) * (2 ^ n)

Shr(x, n) == IF n >= 31 THEN 0 ELSE x \div (2 ^ n)

\* What a build without overflow checks shifts by when asked for m bits.
Masked(m) == m % 32

\* (ext_minus_1 + 1) * k, the product ext * k.
Times(e1, k) == IF k = 0 THEN 0 ELSE e1 * k + k

\* -------------------------------------------------------------------- ilog
\* Lines 382-400.  `!` on a u32 is the bitwise complement, so `!!x` is x
\* itself: ret starts as v and every m is the masked bits of v, shifted.
\* shift_overflow: some `v >>= m` had m >= 32.
ilog(v) ==
    LET m1   == Shl(v - (v % 65536), 4)
        v1   == Shr(v, Masked(m1))
        ret1 == BitOr(v, m1)
        m2   == Shl(BitAnd(v1, 65280), 3)
        v2   == Shr(v1, Masked(m2))
        ret2 == BitOr(ret1, m2)
        m3   == Shl(BitAnd(v2, 240), 2)
        v3   == Shr(v2, Masked(m3))
        ret3 == BitOr(ret2, m3)
        m4   == Shl(BitAnd(v3, 12), 1)
        v4   == Shr(v3, Masked(m4))
        ret4 == BitOr(ret3, m4)
    IN  [ret |-> ret4 + BitAnd(v4, 2),
         shift_overflow |-> m1 >= 32 \/ m2 >= 32 \/ m3 >= 32 \/ m4 >= 32]

\* ------------------------------------------------------------- self, bytes
\* The fields of self; abort names what stopped the call, if anything did,
\* and underflow says that val -= s wrapped below zero.
Self ==
    [frame_data |-> frame_data, val |-> val, rng_minus_1 |-> rng_minus_1,
     ext_minus_1 |-> ext_minus_1, leftover_bit |-> leftover_bit,
     end_window |-> end_window, num_end_bits |-> num_end_bits,
     num_bits_total |-> num_bits_total, abort |-> "none",
     underflow |-> FALSE, front_read |-> front_read, end_read |-> end_read,
     module |-> "decoder"]

\* Lines 350-358.
read_byte(st) ==
    IF st.frame_data # <<>>
    THEN [byte |-> Head(st.frame_data),
          st   |-> [st EXCEPT !.frame_data = Tail(@),
                              !.front_read = Append(@, Head(st.frame_data))]]
    ELSE [byte |-> 0, st |-> [st EXCEPT !.front_read = Append(@, 0)]]

\* Lines 360-368.
read_byte_from_end(st) ==
    IF st.frame_data # <<>>
    THEN [byte |-> st.frame_data[Len(st.frame_data)],
          st   |-> [st EXCEPT
                       !.frame_data = SubSeq(@, 1, Len(@) - 1),
                       !.end_read = Append(@, st.frame_data[Len(st.frame_data)])]]
    ELSE [byte |-> 0, st |-> [st EXCEPT !.end_read = Append(@, 0)]]

\* ------------------------------------------------------------- renormalize
\* renormalize with `<` for `<=` in the loop condition: a range of exactly
\* 2^23 is left as it is.
RECURSIVE renormalize_strict_less(_)
renormalize_strict_less(st) ==
    IF st.rng_minus_1 < 0
    THEN [st EXCEPT !.abort = "hang"]
    ELSE IF st.rng_minus_1 < 2 ^ 23 - 1
    THEN LET rd        == read_byte(st)
             next_byte == rd.byte
             sym       == IF st.leftover_bit THEN BitOr(next_byte, 1)
                                             ELSE next_byte
         IN  renormalize_strict_less(
                 [rd.st EXCEPT !.rng_minus_1  = st.rng_minus_1 * 256 + 255,
                               !.leftover_bit = (next_byte % 2 = 1),
                               !.val = (st.val % (2 ^ 23)) * 256 + (255 - sym),
                               !.num_bits_total =
                                   IF st.module = "range_decoder"
                                   THEN @ + SYM_BITS ELSE @])
    ELSE st

\* Lines 370-380.  rng <<= 8 is rng_minus_1 * 256 + 255; the mask 0x7FFFFFFF
\* drops bit 31 of val << 8, which is bit 23 of val.  A range of 0 stays 0
\* and never leaves the loop.  The renormalize of range_decoder.rs (lines
\* 189-202) is the same loop with one more statement,
\* self.bit_decoder.num_bits_total += SYMBOL_BITS (line 191).
RECURSIVE renormalize(_)
renormalize(st) ==
    IF st.rng_minus_1 < 0
    THEN [st EXCEPT !.abort = "hang"]
    ELSE IF st.rng_minus_1 < 2 ^ 23
    THEN LET rd        == read_byte(st)
             next_byte == rd.byte
             sym       == IF st.leftover_bit THEN BitOr(next_byte, 1)
                                             ELSE next_byte
         IN  renormalize(
                 [rd.st EXCEPT !.rng_minus_1  = st.rng_minus_1 * 256 + 255,
                               !.leftover_bit = (next_byte % 2 = 1),
                               !.val = (st.val % (2 ^ 23)) * 256 + (255 - sym),
                               !.num_bits_total =
                                   IF st.module = "range_decoder"
                                   THEN @ + SYM_BITS ELSE @])
    ELSE st

\* ----------------------------------------------------------- decode, update
\* Lines 316-321: [st, t].  ext = rng / frequency_total, s = val / ext; a
\* divisor of 0 aborts in every build.
decode(st, frequency_total) ==
    IF frequency_total = 0
    THEN [st |-> [st EXCEPT !.abort = "divide by zero"], t |-> 0]
    ELSE LET q   == st.rng_minus_1 \div frequency_total
             e1  == IF st.rng_minus_1 % frequency_total = frequency_total - 1
                    THEN q ELSE q - 1
             s   == IF st.val <= e1 THEN 0 ELSE st.val \div (e1 + 1)
         IN  IF e1 < 0
             THEN [st |-> [st EXCEPT !.ext_minus_1 = e1,
                                     !.abort = "divide by zero"],
                   t  |-> 0]
             ELSE [st |-> [st EXCEPT !.ext_minus_1 = e1],
                   t  |-> frequency_total - Min(s + 1, frequency_total)]

\* Line 276: rng - 1 as update leaves it for renormalize.
update_rng_minus_1(st, fl, fh, ft) ==
    IF fl > 0
    THEN Times(st.ext_minus_1, fh - fl) - 1
    ELSE st.rng_minus_1 - Times(st.ext_minus_1, ft - fh)

\* Lines 273-279.  val -= s below 0 aborts with overflow checks and wraps
\* without (the wrapped val is written val - s, standing for 2^32 + val - s).
update(st, fl, fh, ft) ==
    IF st.abort # "none" THEN st
    ELSE LET s == Times(st.ext_minus_1, ft - fh) IN
         IF st.val < s /\ checked_build
         THEN [st EXCEPT !.abort = "subtract with overflow"]
         ELSE renormalize(
                  [st EXCEPT !.val = st.val - s,
                             !.underflow = (st.val < s),
                             !.rng_minus_1 =
                                 update_rng_minus_1(st, fl, fh, ft)])

\* ------------------------------------------------------------- decode_bits
\* The loop of lines 328-335, entered with `available` valid bits.
RECURSIVE Refill(_, _, _)
Refill(st, window, available) ==
    LET rd == read_byte_from_end(st)
        w  == BitOr(window, Shl(rd.byte, Masked(available)))
        a  == available + SYM_BITS
    IN  IF checked_build /\ available >= 32
        THEN [st |-> [st EXCEPT !.abort = "shift with overflow"],
              window |-> window, available |-> available]
        ELSE IF a <= WINDOW_SIZE - SYM_BITS
        THEN [st |-> rd.st, window |-> w, available |-> a]
        ELSE Refill(rd.st, w, a)

\* Lines 323-348: [st, ret].  (available as u32) < bits is false for a
\* negative available, which the cast turns into a value above 2^31.
decode_bits(st, bits) ==
    IF st.abort # "none" THEN [st |-> st, ret |-> 0]
    ELSE LET filled == IF st.num_end_bits >= 0 /\ st.num_end_bits < bits
                       THEN Refill(st, st.end_window, st.num_end_bits)
                       ELSE [st |-> st, window |-> st.end_window,
                             available |-> st.num_end_bits]
             b      == Masked(bits)
         IN  IF filled.st.abort # "none" THEN [st |-> filled.st, ret |-> 0]
             ELSE IF checked_build /\ bits >= 32
             THEN [st  |-> [filled.st EXCEPT !.abort = "shift with overflow"],
                   ret |-> 0]
             ELSE [st  |-> [filled.st EXCEPT
                               !.end_window     = Shr(filled.window, b),
                               !.num_end_bits   = filled.available - bits,
                               !.num_bits_total = @ + bits],
                   ret |-> IF b >= 31 THEN filled.window
                           ELSE filled.window % (2 ^ b)]

\* -------------------------------------------------------------- decode_u32
\* Lines 282-313 as a function of self: the fields afterwards (st), the
\* value returned (ret) and what the call did: the result of ilog, the
\* branch taken, the value decode returned (t), the number of raw bits asked
\* for (bits) and the value decode_bits returned (raw).
DecodeU32(st, frequency_total) ==
    LET ft1  == frequency_total - 1
        il   == ilog(ft1)
        ftb  == il.ret
        none == [st |-> st, ret |-> 0, frequency_total_bits |-> 0,
                 shift_overflow |-> il.shift_overflow,
                 branch |-> "none", t |-> 0, bits |-> 0, raw |-> 0]
    IN  IF frequency_total <= 1
        THEN [none EXCEPT !.st.abort = "assertion failed"]
        ELSE IF checked_build /\ il.shift_overflow
        THEN [none EXCEPT !.st.abort = "shift with overflow"]
        ELSE IF ftb > 8
        THEN LET k    == ftb - 8
                 temp == Shr(ft1 - 1, Masked(k)) + 1
                 d    == decode(st, temp)
                 u    == update(d.st, d.t, d.t + 1, temp)
                 db   == decode_bits(u, k)
                 t    == BitOr(Shl(d.t, Masked(k)), db.ret)
             IN  IF checked_build /\ k >= 32
                 THEN [none EXCEPT !.st.abort = "shift with overflow",
                                   !.frequency_total_bits = ftb]
                 ELSE [st |-> db.st,
                       ret |-> IF t <= ft1 THEN t ELSE ft1,
                       frequency_total_bits |-> ftb,
                       shift_overflow |-> il.shift_overflow,
                       branch |-> "large",
                       t |-> d.t, bits |-> k, raw |-> db.ret]
        ELSE LET d == decode(st, frequency_total)
                 u == update(d.st, d.t, d.t + 1, frequency_total)
             IN  [st |-> u, ret |-> d.t, frequency_total_bits |-> ftb,
                  shift_overflow |-> il.shift_overflow,
                  branch |-> "small", t |-> d.t, bits |-> 0, raw |-> 0]

\* ------------------------------------------------------- the decoder's runs
\* Longest frame and largest number of decode_u32 calls on one decoder.
\* RangeDecoder::new reads the first four bytes of the frame.
MaxFrameLen == 6
MaxCalls == 2

\* Frame bytes: 0x55 (odd, alternating bits) and 0xFE (even).
FrameBytes == {85, 254}

Frames == UNION {[1 .. n -> FrameBytes] : n \in 0 .. MaxFrameLen}

\* Arguments of decode_u32: 2, 3, 4 (ilog of 1, 2, 3), 5 and 9 (size minus
\* one of 3 and 4 bits), 17 (5 bits), 256 and 257 (ilog of 255 and 256) and
\* 4101 (13 bits).
FrequencyTotals == {2, 3, 4, 5, 9, 17, 256, 257, 4101}

\* The fields of self become those of st, or the call never returns.
Becomes(st) ==
    /\ rd_pc' = IF st.abort = "none" THEN "ready"
                ELSE IF st.abort = "hang" THEN "hang" ELSE "panic"
    /\ frame_data' = st.frame_data
    /\ val' = st.val
    /\ rng_minus_1' = st.rng_minus_1
    /\ ext_minus_1' = st.ext_minus_1
    /\ leftover_bit' = st.leftover_bit
    /\ end_window' = st.end_window
    /\ num_end_bits' = st.num_end_bits
    /\ num_bits_total' = st.num_bits_total
    /\ front_read' = st.front_read
    /\ end_read' = st.end_read

\* A RangeDecoder is about to be built on `frame`, in either build.
InitDecoder ==
    /\ data = [head |-> <<>>, tail |-> [len |-> 0, fill |-> 0]]
    /\ Entry
    /\ checked_build \in BOOLEAN
    /\ rd_pc = "new"
    /\ frame \in Frames
    /\ frame_data = frame
    /\ val = 0
    /\ rng_minus_1 = 0
    /\ ext_minus_1 = 0
    /\ leftover_bit = FALSE
    /\ end_window = 0
    /\ num_end_bits = 0
    /\ num_bits_total = 0
    /\ calls = <<>>
    /\ front_read = <<>>
    /\ end_read = <<>>
    /\ before = Self
    /\ range_decoder = [pc |-> "new", rets |-> <<>>,
                        st |-> [Self EXCEPT !.module = "range_decoder"]]
    /\ NoRangeEncoder

\* Lines 242-268 with BitDecoder::default (lines 230-238).
RangeDecoder_new ==
    /\ rd_pc = "new"
    /\ LET rd == read_byte(Self)
           first_input_byte == rd.byte
       IN  \E st \in {renormalize(
               [rd.st EXCEPT
                   !.rng_minus_1    = 128 - 1,
                   !.val            = 127 - (first_input_byte \div 2),
                   !.ext_minus_1    = 0 - 1,
                   !.end_window     = 0,
                   !.num_end_bits   = 0,
                   !.num_bits_total =
                       CODE_BITS + 1
                       - ((CODE_BITS - CODE_EXTRA) \div SYM_BITS) * SYM_BITS,
                   !.leftover_bit   = (first_input_byte % 2 = 1)])} :
              Becomes(st)
    /\ UNCHANGED <<checked_build, frame, calls, before, range_decoder>>
    /\ UNCHANGED <<fvars, evars>>

\* One call of decode_u32 on the decoder.
decode_u32(frequency_total) ==
    /\ rd_pc = "ready"
    /\ Len(calls) < MaxCalls
    /\ \E r \in {DecodeU32(Self, frequency_total)} :
       /\ \E st \in {IF r.st.abort = "none" THEN r.st
                     ELSE [Self EXCEPT !.abort = r.st.abort]} : Becomes(st)
       /\ calls' = Append(calls,
                     [frequency_total      |-> frequency_total,
                      frequency_total_bits |-> r.frequency_total_bits,
                      shift_overflow |-> r.shift_overflow,
                      underflow |-> r.st.underflow,
                      branch  |-> r.branch,
                      t       |-> r.t,
                      bits    |-> r.bits,
                      raw     |-> r.raw,
                      ret     |-> r.ret,
                      outcome |-> IF r.st.abort = "none" THEN "returned"
                                  ELSE r.st.abort])
    /\ before' = Self
    /\ UNCHANGED <<checked_build, frame, range_decoder>>
    /\ UNCHANGED <<fvars, evars>>

NextDecoder ==
    \/ RangeDecoder_new
    \/ \E frequency_total \in FrequencyTotals : decode_u32(frequency_total)

SpecDecoder == InitDecoder /\ [][NextDecoder]_vars

\* ------------------------------------- the RangeDecoder of range_decoder.rs
\* range_decoder.rs, lines 4-15.
range_decoder_CODE_BITS == 32
range_decoder_SYMBOL_BITS == 8
range_decoder_CODE_EXTRA ==
    ((range_decoder_CODE_BITS - 2) % range_decoder_SYMBOL_BITS) + 1

\* range_decoder.rs, lines 59-87, with BitDecoder::default (lines 48-56):
\* new on the same frame.
range_decoder_new ==
    /\ range_decoder.pc = "new"
    /\ LET rd == read_byte(range_decoder.st)
           first_input_byte == rd.byte
           rng == 2 ^ range_decoder_CODE_EXTRA
       IN  \E st \in {renormalize(
               [rd.st EXCEPT
                   !.rng_minus_1    = rng - 1,
                   !.val            =
                       rng - 1
                       - Shr(first_input_byte,
                             range_decoder_SYMBOL_BITS
                             - range_decoder_CODE_EXTRA),
                   !.ext_minus_1    = 0 - 1,
                   !.end_window     = 0,
                   !.num_end_bits   = 0,
                   !.num_bits_total =
                       range_decoder_CODE_BITS + 1
                       - ((range_decoder_CODE_BITS - range_decoder_CODE_EXTRA)
                          \div range_decoder_SYMBOL_BITS)
                         * range_decoder_SYMBOL_BITS,
                   !.leftover_bit   = (first_input_byte % 2 = 1)])} :
              range_decoder' =
                  [range_decoder EXCEPT
                      !.st = st,
                      !.pc = IF st.abort = "none" THEN "ready"
                             ELSE IF st.abort = "hang" THEN "hang"
                             ELSE "panic"]
    /\ UNCHANGED <<checked_build, rd_pc, frame, frame_data, val, rng_minus_1,
                   ext_minus_1, leftover_bit, end_window, num_end_bits,
                   num_bits_total, calls, before, front_read, end_read>>
    /\ UNCHANGED <<fvars, evars>>

\* range_decoder.rs, lines 100-132 (with decode, update, decode_bits,
\* read_byte, read_byte_from_end and ilog, lines 89-98 and 135-222, which
\* are those of decoder.rs statement for statement): the call of decode_u32
\* that the decoder of decoder.rs has been given at the same position.
range_decoder_decode_u32 ==
    /\ range_decoder.pc = "ready"
    /\ Len(range_decoder.rets) < Len(calls)
    /\ LET frequency_total ==
               calls[Len(range_decoder.rets) + 1].frequency_total
       IN  \E r \in {DecodeU32(range_decoder.st, frequency_total)} :
              range_decoder' =
                  [st   |-> IF r.st.abort = "none" THEN r.st
                            ELSE range_decoder.st,
                   pc   |-> IF r.st.abort = "none" THEN "ready"
                            ELSE IF r.st.abort = "hang" THEN "hang"
                            ELSE "panic",
                   rets |-> Append(range_decoder.rets,
                                [ret     |-> r.ret,
                                 outcome |-> IF r.st.abort = "none"
                                             THEN "returned"
                                             ELSE r.st.abort])]
    /\ UNCHANGED <<checked_build, rd_pc, frame, frame_data, val, rng_minus_1,
                   ext_minus_1, leftover_bit, end_window, num_end_bits,
                   num_bits_total, calls, before, front_read, end_read>>
    /\ UNCHANGED <<fvars, evars>>

NextTwoDecoders ==
    \/ RangeDecoder_new
    \/ \E frequency_total \in FrequencyTotals : decode_u32(frequency_total)
    \/ range_decoder_new
    \/ range_decoder_decode_u32

SpecTwoDecoders == InitDecoder /\ [][NextTwoDecoders]_vars

\* ============================================================ RangeEncoder
\* range_coding/mod.rs, lines 6-15.
SYMBOL_BITS == 8
SYMBOL_MAX == 2 ^ SYMBOL_BITS - 1
CODE_SHIFT == CODE_BITS - SYMBOL_BITS - 1
CODE_TOP_minus_1 == (2 ^ (CODE_BITS - 2) - 1) + 2 ^ (CODE_BITS - 2)
CODE_BOTTOM == 2 ^ (CODE_BITS - 1 - SYMBOL_BITS)

\* Lines 47-71 on the fields [rem, ext]: the byte writes are comments, so
\* nothing is appended to `written`.
carry_out(e, c) ==
    IF c # SYMBOL_MAX
    THEN [e EXCEPT !.ext = 0, !.rem = <<c % (SYMBOL_MAX + 1)>>]
    ELSE [e EXCEPT !.ext = (e.ext + 1) % (2 ^ 16)]

\* Longest sequence of symbols encoded by one encoder.
MaxSymbols == 2

\* (frequency_low, frequency_high, frequency_total) with
\* 0 <= low < high <= total, total a u16.
Triples ==
    {<<0, 1, 2>>, <<1, 2, 2>>, <<0, 1, 1>>, <<0, 2, 2>>, <<1, 3, 4>>,
     <<3, 4, 4>>, <<0, 1, 65535>>, <<65534, 65535, 65535>>}

\* RangeEncoder::new() has returned (line 21); no decoder exists yet.
InitRoundTrip ==
    /\ data = [head |-> <<>>, tail |-> [len |-> 0, fill |-> 0]]
    /\ Entry
    /\ checked_build \in BOOLEAN
    /\ NoRangeDecoder
    /\ enc_pc = "ready"
    /\ enc_val = 0
    /\ enc_rng_minus_1 = CODE_TOP_minus_1
    /\ rem = <<>>
    /\ enc_ext = 0
    /\ written = <<>>
    /\ symbols = <<>>
    /\ decoded = <<>>
    /\ enc_before = [val |-> enc_val, rng_minus_1 |-> enc_rng_minus_1]
    /\ carried = <<>>

\* Lines 26-33: val and rng - 1 as encode leaves them for renormalize;
\* r1 is r - 1.
Narrowed(frequency_low, frequency_high, frequency_total) ==
    LET q   == enc_rng_minus_1 \div frequency_total
        r1  == IF enc_rng_minus_1 % frequency_total = frequency_total - 1
               THEN q ELSE q - 1
    IN  [val |-> IF frequency_low > 0
                 THEN enc_val + (enc_rng_minus_1
                                 - Times(r1, frequency_total - frequency_low))
                              + 1
                 ELSE enc_val,
         rng_minus_1 |->
                 IF frequency_low > 0
                 THEN Times(r1, frequency_high - frequency_low) - 1
                 ELSE Times(r1, frequency_total - frequency_high) - 1]

\* Lines 25-43: encode, with the renormalize it ends with.  The loop of
\* renormalize changes neither rng nor val, so once entered it is never
\* left: rem is set again and again, or, when val >> CODE_SHIFT is
\* SYMBOL_MAX, the u16 ext grows until it overflows, which aborts with
\* overflow checks and wraps without.
encode(frequency_low, frequency_high, frequency_total) ==
    /\ enc_pc = "ready"
    /\ rd_pc = "unused"
    /\ Len(symbols) < MaxSymbols
    /\ symbols' = Append(symbols, [low   |-> frequency_low,
                                   high  |-> frequency_high,
                                   total |-> frequency_total])
    /\ LET n   == Narrowed(frequency_low, frequency_high, frequency_total)
           v   == n.val
           rg1 == n.rng_minus_1
           e   == carry_out([rem |-> rem, ext |-> enc_ext],
                            Shr(v, CODE_SHIFT))
       IN  /\ enc_val' = v
           /\ enc_rng_minus_1' = rg1
           /\ IF rg1 < CODE_BOTTOM
              THEN /\ enc_pc' = IF checked_build
                                   /\ Shr(v, CODE_SHIFT) = SYMBOL_MAX
                                THEN "panic" ELSE "hang"
                   /\ rem' = e.rem
                   /\ enc_ext' = e.ext
              ELSE UNCHANGED <<enc_pc, rem, enc_ext>>
    /\ enc_before' = [val |-> enc_val, rng_minus_1 |-> enc_rng_minus_1]
    /\ UNCHANGED <<written, decoded, carried>>
    /\ UNCHANGED <<fvars, rdvars>>

\* The bytes written so far are handed to RangeDecoder::new.
TakeWritten ==
    /\ enc_pc = "ready"
    /\ rd_pc = "unused"
    /\ symbols # <<>>
    /\ rd_pc' = "new"
    /\ frame' = written
    /\ frame_data' = written
    /\ before' = [Self EXCEPT !.frame_data = written]
    /\ UNCHANGED <<checked_build, val, rng_minus_1, ext_minus_1, leftover_bit, end_window,
                   num_end_bits, num_bits_total, calls, front_read,
                   end_read, range_decoder>>
    /\ UNCHANGED <<fvars, evars>>

\* The next symbol is decoded with its own triple: p = decode(total), then
\* update(low, high, total) (decoder.rs lines 316-321 and 273-279).
decode_update ==
    /\ rd_pc = "ready"
    /\ Len(decoded) < Len(symbols)
    /\ LET tr == symbols[Len(decoded) + 1] IN
       \E d \in {decode(Self, tr.total)} :
          /\ decoded' = Append(decoded, d.t)
          /\ \E st \in {update(d.st, tr.low, tr.high, tr.total)} : Becomes(st)
    /\ before' = Self
    /\ UNCHANGED <<checked_build, frame, calls, range_decoder>>
    /\ UNCHANGED fvars
    /\ UNCHANGED <<enc_pc, enc_val, enc_rng_minus_1, rem, enc_ext, written,
                   symbols, enc_before, carried>>

NextRoundTrip ==
    \/ \E tr \in Triples : encode(tr[1], tr[2], tr[3])
    \/ TakeWritten
    \/ RangeDecoder_new
    \/ decode_update

SpecRoundTrip == InitRoundTrip /\ [][NextRoundTrip]_vars

\* ------------------------------------------------- the encoder, step by step
\* Lines 25-35: encode up to its call of renormalize.
encode_call(frequency_low, frequency_high, frequency_total) ==
    /\ enc_pc = "ready"
    /\ Len(symbols) < MaxSymbols
    /\ symbols' = Append(symbols, [low   |-> frequency_low,
                                   high  |-> frequency_high,
                                   total |-> frequency_total])
    /\ \E n \in {Narrowed(frequency_low, frequency_high, frequency_total)} :
          /\ enc_val' = n.val
          /\ enc_rng_minus_1' = n.rng_minus_1
    /\ enc_pc' = "renormalize"
    /\ enc_before' = [val |-> enc_val, rng_minus_1 |-> enc_rng_minus_1]
    /\ UNCHANGED <<rem, enc_ext, written, decoded, carried>>
    /\ UNCHANGED <<fvars, rdvars>>

\* Lines 40-41: one turn of the loop of renormalize, the condition being
\* true: carry_out(val >> CODE_SHIFT), lines 47-71.  Neither rng nor val is
\* assigned.  ext is a u16: ext += 1 at 65535 aborts with overflow checks
\* and wraps to 0 without.
renormalize_carry_out ==
    /\ enc_pc = "renormalize"
    /\ enc_rng_minus_1 < CODE_BOTTOM
    /\ LET c == Shr(enc_val, CODE_SHIFT) IN
       /\ carried' = <<[c |-> c, rem |-> rem, ext |-> enc_ext,
                        written |-> written]>>
       /\ \E e \in {carry_out([rem |-> rem, ext |-> enc_ext], c)} :
             /\ rem' = e.rem
             /\ enc_ext' = e.ext
       /\ enc_pc' = IF checked_build /\ c = SYMBOL_MAX
                       /\ enc_ext = 2 ^ 16 - 1
                    THEN "panic" ELSE "renormalize"
    /\ UNCHANGED <<enc_val, enc_rng_minus_1, written, symbols, decoded,
                   enc_before>>
    /\ UNCHANGED <<fvars, rdvars>>

\* Line 40, the condition being false: renormalize and encode return.
renormalize_return ==
    /\ enc_pc = "renormalize"
    /\ enc_rng_minus_1 >= CODE_BOTTOM
    /\ enc_pc' = "ready"
    /\ UNCHANGED <<enc_val, enc_rng_minus_1, rem, enc_ext, written, symbols,
                   decoded, enc_before, carried>>
    /\ UNCHANGED <<fvars, rdvars>>

NextEncoder ==
    \/ \E tr \in Triples : encode_call(tr[1], tr[2], tr[3])
    \/ renormalize_carry_out
    \/ renormalize_return

\* The loop of renormalize goes on while it can: a thread that is in the
\* loop takes its next turn, or returns.
SpecEncoder ==
    /\ InitRoundTrip
    /\ [][NextEncoder]_vars
    /\ WF_vars(renormalize_carry_out)
    /\ WF_vars(renormalize_return)

\* ================================================================ claims
\* The steps taken so far include `step`.
Took(step) == \E i \in DOMAIN path : path[i] = step

LastStep == IF path = <<>> THEN "none" ELSE path[Len(path)]

\* FrameIterator::new has returned Ok.
Constructed == pc = "iterate" \/ Took("next")

\* The bytes after the TOC byte.
PayloadLen == DataLen(data) - 1

\* One past the last byte of the slice the iterator walks; next() never moves it.
BufferEnd == packet.off + packet.len

RECURSIVE SumLen(_)
SumLen(fs) == IF fs = <<>> THEN 0 ELSE Head(fs).len + SumLen(Tail(fs))

Contiguous(fs) ==
    \A i \in 1 .. Len(fs) - 1 : fs[i + 1].off = fs[i].off + fs[i].len

\* C1 (as claimed): whenever FrameIterator::new succeeds, the iteration ends
\* normally with count frames that are contiguous and in packet order, and
\* frame bytes + consumed control/prefix/padding-length bytes + padding bytes
\* add up to the payload length.
C1_FramingCoverage ==
    (pc = "returned" /\ Took("next")) =>
        /\ result = "Ok"
        /\ Len(frames) = count
        /\ Contiguous(frames)
        /\ \A i \in DOMAIN frames : frames[i].len >= 0
        /\ (frames[1].off - 1) + SumLen(frames) + total_padding_bytes = PayloadLen

\* C2 (as claimed): decode_f32 never aborts; it returns a result or an Error.
C2_NeverAborts == result # "panic"

\* C3 (as claimed): variable-bit-rate framing with N frames either fails with
\* InvalidPacketSize or yields N frames, the first N-1 with the lengths of the
\* size prefixes and the N-th made of the bytes that remain after them.
C3_VariableBitRateFrames ==
    (pc = "returned" /\ Took("variable_bit_rate")) =>
        \/ result = "InvalidPacketSize"
        \/ /\ result = "Ok"
           /\ Len(frames) = num_frames
           /\ Contiguous(frames)
           /\ \A i \in 1 .. num_frames - 1 : frames[i].len = sizes[i - 1]
           /\ frames[num_frames].off + frames[num_frames].len
                  = DataLen(data) - total_padding_bytes

\* C4 (as claimed): TwoDifferent framing with prefix value s in p bytes and
\* payload length L fails with InvalidPacketSize when s exceeds the length,
\* and otherwise yields frame 1 = the s bytes after the prefix and
\* frame 2 = the L - p - s bytes after frame 1.
C4_TwoDifferentFrames ==
    (pc = "returned" /\ Took("TwoDifferentlyCompressed")) =>
        LET ps == parse_size([off |-> 1, len |-> PayloadLen]) IN
        ps.tag = "Some" =>
            IF ps.size > PayloadLen
            THEN result = "InvalidPacketSize"
            ELSE /\ result = "Ok"
                 /\ frames = << [off |-> 1 + ps.num_bytes, len |-> ps.size],
                                [off |-> 1 + ps.num_bytes + ps.size,
                                 len |-> PayloadLen - ps.num_bytes - ps.size] >>

\* The control byte of an Arbitrary packet declares zero frames.
ZeroFrameCountDeclared ==
    /\ DataLen(data) >= 2
    /\ At(data, 0) % 4 = 3
    /\ At(data, 1) % 64 = 0

\* C5 (as claimed): every Arbitrary packet that has a control byte whose low
\* six bits are zero fails with InvalidFrameCount.
C5_ZeroFrameCountAnyPacket ==
    (pc = "returned" /\ ZeroFrameCountDeclared) => result = "InvalidFrameCount"

\* C5 (amended): an Arbitrary packet whose control byte declares zero frames
\* fails with InvalidFrameCount when at least one byte follows the control
\* byte; a packet that ends with the control byte fails with
\* InvalidPacketSize instead.
C5_ZeroFrameCountRejected ==
    (pc = "returned" /\ ZeroFrameCountDeclared) =>
        IF DataLen(data) >= 3
        THEN result = "InvalidFrameCount"
        ELSE result = "InvalidPacketSize"

\* C5 witness: a control byte with the bit-6 flag set and count 0 was rejected.
C5_Witness ==
    /\ pc = "returned"
    /\ ZeroFrameCountDeclared
    /\ At(data, 1) = 64
    /\ result = "InvalidFrameCount"

\* C6 (as claimed): constant-bit-rate framing with N frames over R remaining
\* bytes fails with InvalidPacketSize when N does not divide R and otherwise
\* yields exactly N frames of R / N bytes.
C6_ConstantBitRateFrames ==
    (pc = "returned" /\ Took("constant_bit_rate")) =>
        LET start == IF frames = <<>> THEN packet.off ELSE frames[1].off
            remaining == BufferEnd - start
        IN  IF remaining % num_frames # 0
            THEN result = "InvalidPacketSize"
            ELSE /\ result = "Ok"
                 /\ Len(frames) = num_frames
                 /\ \A i \in DOMAIN frames :
                        frames[i].len = remaining \div num_frames

\* The number of leading bytes 255 in the buffer that follows the control byte
\* (the bytes from offset 2 on), or its length when every byte is 255.
PaddingContinuations ==
    CHOOSE k \in 0 .. DataLen(data) - 2 :
        /\ \A j \in 0 .. k - 1 : At(data, 2 + j) = 255
        /\ k = DataLen(data) - 2 \/ At(data, 2 + k) # 255

\* C7: once the padding step has run, with k bytes 255 followed by a byte n
\* in 0..254 read from the front, the padding length is 254 * k + n; running
\* out of bytes fails with InvalidOpusPadding; a length >= the bytes left
\* after the k + 1 length bytes fails with InvalidPacketSize; otherwise the
\* buffer keeps its front, right after the length bytes, and loses exactly
\* that many bytes at its tail, so every frame lies in what is left.
C7_PaddingRemoved ==
    Took("padding") =>
        LET k         == PaddingContinuations
            total     == 254 * k + At(data, 2 + k)
            remaining == DataLen(data) - 2 - (k + 1)
        IN  IF k = DataLen(data) - 2
            THEN pc = "returned" /\ result = "InvalidOpusPadding"
            ELSE /\ total_padding_bytes = total
                 /\ IF total >= remaining
                    THEN /\ pc = "returned"
                         /\ result = "InvalidPacketSize"
                         /\ LastStep = "padding"
                    ELSE /\ LastStep = "padding" =>
                            /\ pc # "returned"
                            /\ packet = [off |-> 2 + k + 1, len |-> remaining - total]
                         /\ packet.off >= 2 + k + 1
                         /\ BufferEnd = DataLen(data) - total
                         /\ \A i \in DOMAIN frames :
                                /\ frames[i].off >= 2 + k + 1
                                /\ frames[i].off + frames[i].len
                                       <= DataLen(data) - total

\* C7 witness: a byte 255 and a last length byte were read, and the padding
\* was cut off the tail.
C7_Witness ==
    /\ LastStep = "padding"
    /\ pc = "constant_bit_rate"
    /\ At(data, 2) = 255
    /\ total_padding_bytes >= 254
    /\ packet.len > 0

\* What C8 says parse_size gives for first byte b0, second byte b1 and a
\* buffer of len >= 1 bytes.
SizePrefix(b0, b1, len) ==
    IF b0 = 0 THEN [tag |-> "None"]
    ELSE IF b0 \in 1 .. 251 THEN [tag |-> "Some", size |-> b0, num_bytes |-> 1]
    ELSE IF len >= 2 THEN [tag |-> "Some", size |-> 4 * b1 + b0, num_bytes |-> 2]
    ELSE [tag |-> "None"]

\* C8: the size prefix at the front of a TwoDifferent payload is decoded as
\* C8 says (0 rejected; 1..251 one byte; 252..255 two bytes, 4*b1 + b0;
\* 252..255 alone rejected): a rejection returns InvalidPacketSize, and an
\* iterator built from it starts right after the prefix with sizes[0] = size.
\* A prefix rejected inside the variable-bit-rate loop returns
\* InvalidPacketSize as well.
C8_ParseSize ==
    /\ Took("TwoDifferentlyCompressed") =>
          LET want == SizePrefix(At(data, 1), At(data, 2), PayloadLen) IN
          IF want.tag = "None"
          THEN pc = "returned" /\ result = "InvalidPacketSize"
          ELSE /\ want.size > PayloadLen =>
                      pc = "returned" /\ result = "InvalidPacketSize"
               /\ (pc = "iterate" /\ current_frame = 0) =>
                      /\ sizes[0] = want.size
                      /\ packet.off = 1 + want.num_bytes
    /\ ( /\ pc = "returned"
         /\ LastStep = "variable_bit_rate"
         /\ size_index < num_frames - 1
         /\ size_index < 48
         /\ packet.len > 0
         /\ SizePrefix(At(data, packet.off), At(data, packet.off + 1),
                       packet.len).tag = "None" )
       => result = "InvalidPacketSize"

\* C8 witness: a two-byte prefix with a non-zero second byte was accepted.
C8_Witness ==
    /\ Took("TwoDifferentlyCompressed")
    /\ pc = "iterate"
    /\ current_frame = 0
    /\ At(data, 1) >= 252
    /\ At(data, 2) > 0
    /\ sizes[0] = 4 * At(data, 2) + At(data, 1)

\* C9: TwoEqual framing fails with InvalidPacketSize on an odd payload
\* length, and on an even length L yields exactly two frames, the first L/2
\* bytes and the last L/2 bytes of the payload.
C9_TwoEqualFrames ==
    (pc = "returned" /\ Took("TwoEquallyCompressed")) =>
        IF PayloadLen % 2 = 1
        THEN result = "InvalidPacketSize" /\ frames = <<>>
        ELSE /\ result = "Ok"
             /\ frames = << [off |-> 1, len |-> PayloadLen \div 2],
                            [off |-> 1 + PayloadLen \div 2,
                             len |-> PayloadLen \div 2] >>

\* C9 witness: an even payload was split into two non-empty halves.
C9_Witness ==
    /\ pc = "returned"
    /\ Took("TwoEquallyCompressed")
    /\ result = "Ok"
    /\ Len(frames) = 2
    /\ frames[1].len > 0

\* C10: whenever FrameIterator::new has returned Ok, its frame count is
\* between 1 and 48.
C10_FrameCountBounded == Constructed => (count >= 1 /\ count <= 48)

\* C10 witness: an iterator of 48 frames was built from an Arbitrary packet.
C10_Witness ==
    /\ pc = "iterate"
    /\ Took("Arbitrary")
    /\ count = 48

\* ------------------------------------------------------------- TOC claims
\* decode_f32 has parsed data[0].
TocParsed == table_of_contents.err # "unset"

\* The table of the format: the entry of config index idx, by index range.
FormatMode(idx) ==
    IF idx <= 11 THEN "SILKOnly" ELSE IF idx <= 15 THEN "Hybrid" ELSE "CELTOnly"

FormatBandwidth(idx) ==
    IF idx <= 3 THEN "Narrow" ELSE IF idx <= 7 THEN "Medium"
    ELSE IF idx <= 11 THEN "Wide" ELSE IF idx <= 13 THEN "SuperWide"
    ELSE IF idx <= 15 THEN "Full" ELSE IF idx <= 19 THEN "Narrow"
    ELSE IF idx <= 23 THEN "Wide" ELSE IF idx <= 27 THEN "SuperWide"
    ELSE "Full"

FormatFrameSize(idx) ==
    IF idx <= 11 THEN <<"Ten", "Twenty", "Forty", "Sixty">>[(idx % 4) + 1]
    ELSE IF idx <= 15 THEN <<"Ten", "Twenty">>[(idx % 2) + 1]
    ELSE <<"TwoPointFive", "Five", "Ten", "Twenty">>[(idx % 4) + 1]

FormatFraming(b) ==
    <<"One", "TwoEquallyCompressed", "TwoDifferentlyCompressed",
      "Arbitrary">>[(b % 4) + 1]

FormatHeader(b) ==
    [err |-> "none",
     codec_config |-> [mode       |-> FormatMode(b \div 8),
                       bandwidth  |-> FormatBandwidth(b \div 8),
                       frame_size |-> FormatFrameSize(b \div 8)],
     channels |-> IF (b \div 4) % 2 = 1 THEN "Stereo" ELSE "Mono",
     frames_per_packet |-> FormatFraming(b)]

\* C11: for every TOC byte the parse succeeds and gives the header of the
\* format's table (framing from the low two bits, channels from bit 2, the
\* codec configuration from the table entry of the top five bits), and the
\* config index, the framing bits and the channel bit can be recovered from
\* the header: no other index, framing bits or channel bit give the same
\* codec configuration, framing mode or channel count.
C11_TocTotalAndTable ==
    TocParsed =>
        /\ table_of_contents = FormatHeader(At(data, 0))
        /\ \A idx \in 0 .. 31 :
              TableOfContentsHeaderFrom(idx * 8).codec_config
                    = table_of_contents.codec_config
                 => idx = At(data, 0) \div 8
        /\ \A bits \in 0 .. 3 :
              TableOfContentsHeaderFrom(bits).frames_per_packet
                    = table_of_contents.frames_per_packet
                 => bits = At(data, 0) % 4
        /\ \A bit \in 0 .. 1 :
              TableOfContentsHeaderFrom(bit * 4).channels
                    = table_of_contents.channels
                 => bit = (At(data, 0) \div 4) % 2

\* A CELT-only, stereo, Arbitrary header has been parsed from the last byte.
C11_Witness ==
    /\ TocParsed
    /\ At(data, 0) = 255
    /\ table_of_contents.codec_config.mode = "CELTOnly"
    /\ table_of_contents.frames_per_packet = "Arbitrary"

\* The header the known vector names: CELT-only, full band, 10 ms, mono, One.
KnownVectorHeader ==
    [err |-> "none",
     codec_config |-> [mode |-> "CELTOnly", bandwidth |-> "Full",
                       frame_size |-> "Ten"],
     channels |-> "Mono", frames_per_packet |-> "One"]

\* C12 as stated: the TOC byte 0xB8 decodes to CELT-only, full, 10 ms, mono,
\* One.
C12_KnownVectorB8 ==
    (TocParsed /\ At(data, 0) = 184) => table_of_contents = KnownVectorHeader

\* C12 amended: the TOC byte 0xB8 (config index 23) decodes to CELT-only,
\* wide, 20 ms, mono, One; the header CELT-only, full, 10 ms, mono, One is
\* what the TOC byte 0xF0 (config index 30) decodes to, and no other byte.
C12_KnownVector ==
    /\ (TocParsed /\ At(data, 0) = 184) =>
          table_of_contents =
             [err |-> "none",
              codec_config |-> [mode |-> "CELTOnly", bandwidth |-> "Wide",
                                frame_size |-> "Twenty"],
              channels |-> "Mono", frames_per_packet |-> "One"]
    /\ TocParsed => (table_of_contents = KnownVectorHeader <=> At(data, 0) = 240)

C12_Witness ==
    /\ TocParsed
    /\ At(data, 0) = 184
    /\ table_of_contents.codec_config.bandwidth = "Wide"

\* C13: a packet of one byte, whatever the TOC byte, framing modes
\* TwoDifferentlyCompressed and Arbitrary included, returns Ok with no frame,
\* and decode_f32 is the only step taken: the framer is not entered.
C13_TocOnlyPacket ==
    (pc = "returned" /\ DataLen(data) = 1) =>
        /\ result = "Ok"
        /\ frames = <<>>
        /\ path = <<"decode_f32">>
        /\ packet = NoSlice

\* A one-byte packet with an Arbitrary TOC has returned Ok.
C13_Witness ==
    /\ pc = "returned"
    /\ DataLen(data) = 1
    /\ At(data, 0) % 4 = 3
    /\ result = "Ok"

\* C14: the empty buffer returns InvalidPacketSize, and neither the TOC
\* parser nor the framer has run.
C14_EmptyBuffer ==
    (pc = "returned" /\ DataLen(data) = 0) =>
        /\ result = "InvalidPacketSize"
        /\ ~TocParsed
        /\ path = <<"decode_f32">>
        /\ packet = NoSlice

C14_Witness ==
    /\ pc = "returned"
    /\ DataLen(data) = 0
    /\ result = "InvalidPacketSize"

\* ---------------------------------------------------- RangeDecoder claims
\* The last decode_u32 call, once one has been made.
Called == calls # <<>>

LastCall == calls[Len(calls)]

\* The number of bits of v: 0 for 0, floor(log2(v)) + 1 otherwise.
RECURSIVE BitLength(_)
BitLength(v) == IF v = 0 THEN 0 ELSE 1 + BitLength(v \div 2)

\* C16: every call decode_u32(frequency_total) with frequency_total >= 2
\* returns, and the value t it returns has 0 <= t <= frequency_total - 1.
C16_ResultInRange ==
    \A i \in DOMAIN calls :
        calls[i].frequency_total >= 2 =>
            /\ calls[i].outcome = "returned"
            /\ 0 <= calls[i].ret
            /\ calls[i].ret <= calls[i].frequency_total - 1

\* C17: for every frequency_total in 2..256 the last call took the
\* small-alphabet path: one decode(frequency_total) and one update, no raw
\* bit read, and the return value
\* t = frequency_total - min(floor(val / floor(rng / ft)) + 1, ft);
\* the raw-bit path is taken only when frequency_total - 1 has more than 8
\* bits.
C17_SmallAlphabetPath ==
    Called =>
        LET ft == LastCall.frequency_total
            r  == (before.rng_minus_1 \div ft)
                  + (IF before.rng_minus_1 % ft = ft - 1 THEN 1 ELSE 0)
        IN  /\ (ft \in 2 .. 256) =>
                  /\ LastCall.outcome = "returned"
                  /\ LastCall.branch = "small"
                  /\ LastCall.bits = 0
                  /\ end_window = before.end_window
                  /\ num_end_bits = before.num_end_bits
                  /\ num_bits_total = before.num_bits_total
                  /\ LastCall.ret = ft - Min((before.val \div r) + 1, ft)
            /\ LastCall.branch = "large" => BitLength(ft - 1) > 8

\* C18: once RangeDecoder::new has run, on any frame, and after every
\* decode_u32 call, 2^23 < rng <= 2^31 and 0 <= val < rng; no call wrapped
\* or aborted in `val -= s`, and rng never became 0 (which renormalize never
\* leaves).
C18_RegisterInvariant ==
    rd_pc \notin {"unused", "new"} =>
        /\ rd_pc # "hang"
        /\ 2 ^ 23 <= rng_minus_1
        /\ rng_minus_1 <= 2147483647
        /\ 0 <= val
        /\ val <= rng_minus_1
        /\ \A i \in DOMAIN calls :
              /\ ~calls[i].underflow
              /\ calls[i].outcome # "subtract with overflow"

\* A call has returned after its update narrowed the range below 2^23 and
\* renormalize read a byte from the front, with a byte read from the end too.
C18_Witness ==
    /\ rd_pc = "ready"
    /\ Called
    /\ LastCall.outcome = "returned"
    /\ LastCall.t > 0
    /\ rng_minus_1 # before.rng_minus_1
    /\ Len(before.frame_data) = 2
    /\ frame_data = <<>>

\* C19: ilog(v) is the bit length of v (ilog(1) = 1, ilog(2) = ilog(3) = 2,
\* ilog(255) = 8, ilog(256) = 9), and every shift amount inside it is below
\* 32; v is frequency_total - 1 of a decode_u32 call.
C19_IlogBitLength ==
    \A i \in DOMAIN calls :
        /\ ~calls[i].shift_overflow
        /\ calls[i].frequency_total_bits
              = BitLength(calls[i].frequency_total - 1)

\* Bit q of the raw bit stream: the bytes of the frame from the last one
\* backward, least significant bit first, zeros past the start of the frame.
RawBit(q) ==
    IF q \div 8 >= Len(frame) THEN 0
    ELSE (frame[Len(frame) - (q \div 8)] \div (2 ^ (q % 8))) % 2

RECURSIVE RawBits(_, _)
RawBits(pos, n) ==
    IF n = 0 THEN 0 ELSE RawBit(pos) + 2 * RawBits(pos + 1, n - 1)

\* The raw bits the calls before the last one asked for.
RECURSIVE BitsAsked(_)
BitsAsked(i) == IF i = 0 THEN 0 ELSE calls[i].bits + BitsAsked(i - 1)

\* C20: when the last call read n raw bits with n in 1..24, decode_bits
\* returned the next n bits of the raw bit stream, the window held at least n
\* valid bits (the count of valid bits left is not negative), and
\* num_bits_total grew by n.
C20_DecodeBits ==
    (Called /\ LastCall.outcome = "returned" /\ LastCall.bits \in 1 .. 24) =>
        /\ LastCall.raw = RawBits(BitsAsked(Len(calls) - 1), LastCall.bits)
        /\ num_end_bits >= 0
        /\ num_bits_total = before.num_bits_total + LastCall.bits

\* ------------------------------------------------------- round-trip claim
\* C15: every encode call returns, and decoding the bytes the encoder
\* produced with the same triples gives, for each symbol, a position p with
\* low <= p < high.
C15_RoundTrip ==
    /\ enc_pc \notin {"hang", "panic"}
    /\ \A i \in DOMAIN decoded :
          /\ symbols[i].low <= decoded[i]
          /\ decoded[i] < symbols[i].high

\* ------------------------------------------------------ cursor independence
\* C21: the i-th forward read returns the i-th byte of the frame and the
\* j-th tail read returns the j-th byte from the end, zero once the frame is
\* exhausted in that direction: what a cursor reads depends on its own
\* earlier reads only, whatever the other cursor has read.
C21_CursorsIndependent ==
    /\ \A i \in DOMAIN front_read :
          front_read[i] = IF i <= Len(frame) THEN frame[i] ELSE 0
    /\ \A j \in DOMAIN end_read :
          end_read[j] = IF j <= Len(frame) THEN frame[Len(frame) - j + 1]
                        ELSE 0

\* ------------------------------------------------- encoder renormalization
\* C22: every encode call returns, and when it has returned rng is above
\* 2^23: a call that has entered renormalize eventually leaves it with
\* rng > CODE_BOTTOM.
C22_EncodeReturns ==
    (enc_pc = "renormalize") ~>
        (enc_pc = "ready" /\ enc_rng_minus_1 >= CODE_BOTTOM)

\* --------------------------------------------------- deferred-carry output
\* The bytes carry_out(c) is to emit when entered with the fields b, for
\* c other than SYMBOL_MAX: the buffered byte plus the carry, then one
\* SYMBOL_MAX plus the carry for each deferred byte.
Emitted(b) ==
    LET carry == Shr(b.c, SYMBOL_BITS)
    IN  (IF b.rem # <<>>
         THEN <<(b.rem[1] + carry) % (SYMBOL_MAX + 1)>> ELSE <<>>)
        \o [i \in 1 .. b.ext |-> (SYMBOL_MAX + carry) % (SYMBOL_MAX + 1)]

\* C23: after carry_out(c) with c other than 0xFF the output has grown by
\* the buffered byte plus the carry and by one byte for each deferred byte,
\* ext is 0 and rem holds c & 0xFF; after carry_out(0xFF) the output and rem
\* are as before and ext is one more; either way the bytes written, the
\* buffered byte and the deferred bytes together are one more than before.
C23_DeferredCarry ==
    carried # <<>> =>
        LET b == carried[1] IN
        /\ IF b.c # SYMBOL_MAX
           THEN /\ written = b.written \o Emitted(b)
                /\ enc_ext = 0
                /\ rem = <<b.c % (SYMBOL_MAX + 1)>>
           ELSE /\ written = b.written
                /\ rem = b.rem
                /\ enc_ext = b.ext + 1
        /\ Len(written) + Len(rem) + enc_ext
              = Len(b.written) + Len(b.rem) + b.ext + 1

\* ------------------------------------------- encoder and decoder narrowing
\* rng - 1 as RangeDecoder::decode(total) followed by update(low, high,
\* total) leaves it for renormalize, from a decoder whose rng is that of the
\* encoder when its last encode was entered.
DecoderNarrowed(tr) ==
    update_rng_minus_1(
        decode([Self EXCEPT !.rng_minus_1 = enc_before.rng_minus_1],
               tr.total).st,
        tr.low, tr.high, tr.total)

\* C24: when encode has narrowed the range and is about to renormalize,
\* its rng is the rng that decode and update compute, before renormalizing,
\* from the same rng and the same triple, for low > 0 and for low = 0.
C24_SameNarrowing ==
    (enc_pc = "renormalize" /\ carried = <<>>) =>
        enc_rng_minus_1 = DecoderNarrowed(symbols[Len(symbols)])

\* ------------------------------------------------- the two RangeDecoders
\* Both decoders have been built and have been given the same calls.
SameStep ==
    /\ rd_pc \notin {"unused", "new"}
    /\ range_decoder.pc \notin {"unused", "new"}
    /\ Len(range_decoder.rets) = Len(calls)

\* The two decoders agree on what every call returned and on every field
\* but num_bits_total.
SameButBitsTotal ==
    /\ rd_pc = range_decoder.pc
    /\ \A i \in DOMAIN calls :
          /\ calls[i].outcome = range_decoder.rets[i].outcome
          /\ calls[i].ret = range_decoder.rets[i].ret
    /\ val = range_decoder.st.val
    /\ rng_minus_1 = range_decoder.st.rng_minus_1
    /\ ext_minus_1 = range_decoder.st.ext_minus_1
    /\ leftover_bit = range_decoder.st.leftover_bit
    /\ frame_data = range_decoder.st.frame_data
    /\ end_window = range_decoder.st.end_window
    /\ num_end_bits = range_decoder.st.num_end_bits

\* C25: given the same frame and the same sequence of decode_u32 calls, the
\* RangeDecoder of decoder.rs and that of range_decoder.rs return the same
\* values and have the same val, rng, ext, leftover_bit, remaining frame
\* bytes, bit window, count of valid window bits and num_bits_total after
\* new and after every call.
C25_DecodersEquivalent ==
    SameStep =>
        /\ SameButBitsTotal
        /\ num_bits_total = range_decoder.st.num_bits_total

====
